---- MODULE Spec2Model ----
(***************************************************************************)
(* A model of minitorch/datasets.py: the point sampler make_pts, the six   *)
(* dataset generators and the lookup table `datasets`.                     *)
(*                                                                         *)
(* Floats.  A coordinate returned by random.random() is modelled as an     *)
(* integer k in 0..Scale-1 that stands for the float k/Scale.  With Scale  *)
(* a power of two every k/Scale, every difference k/Scale - 0.5 and every  *)
(* product and sum the generators form is an exact binary fraction, and no *)
(* grid value lies between a decimal literal (0.1, 0.2, 0.8) and its       *)
(* double, so the comparisons below, done by cross-multiplication in       *)
(* integers, give the answers the floating-point comparisons give.         *)
(* A literal d/10 is compared with k/Scale as 10*k against d*Scale.        *)
(*                                                                         *)
(* The random source.  The process-wide generator of the `random` module   *)
(* is deterministic given its state: it is modelled as the stream of the   *)
(* values it is going to yield (`stream`, fixed in Init, any values of the *)
(* grid) and the number of values already drawn (`pos`).                   *)
(*                                                                         *)
(* cos and sin.  The spiral coordinates t*cos(t)/20 and t*sin(t)/20 are    *)
(* transcendental; they are kept as terms over their exact arguments (the  *)
(* helper applied, the factor 10.0 or -10.0, i and N // 2), so that which  *)
(* helper is applied to which parameter at which index stays decidable.    *)
(***************************************************************************)
EXTENDS Integers, Sequences, FiniteSets, TLC

\* Largest N a generator is called with.
MaxN == 5
\* Calls are made with N in -NegN..MaxN.
NegN == 2
\* Length of the modelled prefix of the random stream: a call is made only
\* when the draws it needs are within the prefix.
MaxDraws == 4
\* Resolution of the coordinate grid: k stands for k/Scale.
Scale == 8

Ns == (-NegN)..MaxN

\* The values the random source may yield: 0, values next to the thresholds
\* 0.2 and 0.8, the boundary 0.5 (when Scale is even) and values on both
\* sides of it.  All lie in [0, 1).
Draws == {0, Scale \div 4, Scale \div 2, (3 * Scale) \div 4, Scale - 1}

\* A coarser choice, for the runs that also call spiral and the lookup table.
CoarseDraws == {0, Scale \div 2, Scale - 1}

VARIABLES
    stream,      \* the values the random source yields, in order
    pos,         \* number of values drawn from the source so far
    pos0,        \* pos when the last call was made
    res,         \* the last call and what it returned or raised
    remembered   \* observer: one spiral call made so far (and the position of
                 \* the source when it was made), kept for comparison

vars == <<stream, pos, pos0, res, remembered>>

----------------------------------------------------------------------------
\* random.random(): the next value of the stream; the source advances by one.
random(p) == [v |-> stream[p + 1], pos |-> p + 1]

\* A loop body that draws x_2 before x_1.
make_pts_body_swapped(X, p) ==
    LET x_2 == random(p)
        x_1 == random(x_2.pos)
    IN  [X |-> Append(X, <<x_1.v, x_2.v>>), pos |-> x_1.pos]

\* The body of make_pts' loop: x_1 is drawn, then x_2, and (x_1, x_2) is
\* appended.
make_pts_body(X, p) ==
    LET x_1 == random(p)
        x_2 == random(x_1.pos)
    IN  [X |-> Append(X, <<x_1.v, x_2.v>>), pos |-> x_2.pos]

\* for i in range(N): ...   (no iteration when N <= 0)
RECURSIVE make_pts_loop(_, _, _, _)
make_pts_loop(i, N, X, p) ==
    IF i >= N
    THEN [X |-> X, pos |-> p]
    ELSE LET b == make_pts_body(X, p)
         IN  make_pts_loop(i + 1, N, b.X, b.pos)

\* A sampler whose loop starts at 1: range(1, N).
make_pts_from_one(N, p) == make_pts_loop(1, N, <<>>, p)

\* make_pts(N): X = [], the loop, return X.
make_pts(N, p) == make_pts_loop(0, N, <<>>, p)

\* The dataclass Graph.
Graph(N, X, y) == [N |-> N, X |-> X, y |-> y]

----------------------------------------------------------------------------
\* The labelling rules, one per generator.

\* A rule that also labels the boundary x_1 = 0.5 with 1.
simple_y1_le(x_1, x_2) == IF 10 * x_1 <= 5 * Scale THEN 1 ELSE 0

\* 1 if x_1 < 0.5 else 0
simple_y1(x_1, x_2) == IF 10 * x_1 < 5 * Scale THEN 1 ELSE 0

\* 1 if x_1 + x_2 < 0.5 else 0
diag_y1(x_1, x_2) == IF 10 * (x_1 + x_2) < 5 * Scale THEN 1 ELSE 0

\* 1 if x_1 < 0.2 or x_1 > 0.8 else 0
split_y1(x_1, x_2) ==
    IF 10 * x_1 < 2 * Scale \/ 10 * x_1 > 8 * Scale THEN 1 ELSE 0

\* 1 if x_1 < 0.5 and x_2 > 0.5 or x_1 > 0.5 and x_2 < 0.5 else 0
xor_y1(x_1, x_2) ==
    IF \/ (10 * x_1 < 5 * Scale /\ 10 * x_2 > 5 * Scale)
       \/ (10 * x_1 > 5 * Scale /\ 10 * x_2 < 5 * Scale)
    THEN 1 ELSE 0

\* x1, x2 = x_1 - 0.5, x_2 - 0.5;  1 if x1 * x1 + x2 * x2 > 0.1 else 0
\* x1 and x2 are held in units of 1/(2*Scale), their squares in 1/(4*Scale^2).
circle_y1(x_1, x_2) ==
    LET x1 == 2 * x_1 - Scale
        x2 == 2 * x_2 - Scale
    IN  IF 10 * (x1 * x1 + x2 * x2) > 1 * (4 * Scale * Scale) THEN 1 ELSE 0

----------------------------------------------------------------------------
\* The five generators that label sampled points.  Each returns the Graph
\* and the position the random source is left at.

simple(N, p) ==
    LET S == make_pts(N, p)
        y == [k \in 1..Len(S.X) |-> simple_y1(S.X[k][1], S.X[k][2])]
    IN  [status |-> "returned", g |-> Graph(N, S.X, y), pos |-> S.pos]

diag(N, p) ==
    LET S == make_pts(N, p)
        y == [k \in 1..Len(S.X) |-> diag_y1(S.X[k][1], S.X[k][2])]
    IN  [status |-> "returned", g |-> Graph(N, S.X, y), pos |-> S.pos]

split(N, p) ==
    LET S == make_pts(N, p)
        y == [k \in 1..Len(S.X) |-> split_y1(S.X[k][1], S.X[k][2])]
    IN  [status |-> "returned", g |-> Graph(N, S.X, y), pos |-> S.pos]

xor(N, p) ==
    LET S == make_pts(N, p)
        y == [k \in 1..Len(S.X) |-> xor_y1(S.X[k][1], S.X[k][2])]
    IN  [status |-> "returned", g |-> Graph(N, S.X, y), pos |-> S.pos]

circle(N, p) ==
    LET S == make_pts(N, p)
        y == [k \in 1..Len(S.X) |-> circle_y1(S.X[k][1], S.X[k][2])]
    IN  [status |-> "returned", g |-> Graph(N, S.X, y), pos |-> S.pos]

----------------------------------------------------------------------------
\* spiral.  A coordinate is the term  h(c * (float(i) / M)) + 0.5  with h one
\* of the local helpers x, y, c the factor 10.0 or -10.0 and M = N // 2.

\* float(i) / (N // 2): raises ZeroDivisionError when N // 2 is 0.
quotient(i, M) == [zero |-> (M = 0), num |-> i, den |-> M]

\* def x(t): return t * math.cos(t) / 20.0
spiral_x(t) == [f |-> "x", t |-> t]

\* def y(t): return t * math.sin(t) / 20.0
spiral_y(t) == [f |-> "y", t |-> t]

\* v + 0.5
plus_half(v) == [of |-> v, plus |-> "0.5"]

\* (x(10.0 * (float(i) / (N // 2))) + 0.5, y(10.0 * (float(i) / (N // 2))) + 0.5)
first_point(i, M) ==
    LET t == [c |-> 10, q |-> quotient(i, M)]
    IN  <<plus_half(spiral_x(t)), plus_half(spiral_y(t))>>

\* A second-arm point with the helpers in the first arm's order.
second_point_unswapped(i, M) ==
    LET t == [c |-> -10, q |-> quotient(i, M)]
    IN  <<plus_half(spiral_x(t)), plus_half(spiral_y(t))>>

\* (y(-10.0 * (float(i) / (N // 2))) + 0.5, x(-10.0 * (float(i) / (N // 2))) + 0.5)
second_point(i, M) ==
    LET t == [c |-> -10, q |-> quotient(i, M)]
    IN  <<plus_half(spiral_y(t)), plus_half(spiral_x(t))>>

\* A range that includes its upper end.
arm_range_inclusive(M) == [lo |-> 5 + 0, hi |-> 5 + M + 1]

\* range(5 + 0, 5 + N // 2): i runs over lo..hi-1, no value when hi <= lo.
arm_range(M) == [lo |-> 5 + 0, hi |-> 5 + M]

\* The two list comprehensions.  An element is evaluated for every i of the
\* range, in increasing order; evaluating one with N // 2 = 0 raises.
RECURSIVE first_arm(_, _, _, _)
first_arm(i, hi, M, X) ==
    IF i >= hi THEN [status |-> "ok", X |-> X]
    ELSE IF quotient(i, M).zero THEN [status |-> "ZeroDivisionError", X |-> X]
    ELSE first_arm(i + 1, hi, M, Append(X, first_point(i, M)))

RECURSIVE second_arm(_, _, _, _)
second_arm(i, hi, M, X) ==
    IF i >= hi THEN [status |-> "ok", X |-> X]
    ELSE IF quotient(i, M).zero THEN [status |-> "ZeroDivisionError", X |-> X]
    ELSE second_arm(i + 1, hi, M, Append(X, second_point(i, M)))

\* [v] * n: the empty list when n <= 0.
repeat(v, n) == [k \in 1..n |-> v]

\* Labels that give the second arm the rest of N: [1] * (N - N // 2).
spiral_y2_rest(N) == repeat(0, N \div 2) \o repeat(1, N - N \div 2)

\* y2 = [0] * (N // 2) + [1] * (N // 2)
spiral_y2(N) == repeat(0, N \div 2) \o repeat(1, N \div 2)

NoGraph == Graph(0, <<>>, <<>>)

\* A spiral that starts like the other generators, with a call of make_pts
\* (as far as the modelled prefix of the stream allows).
spiral_sampling(N, p) ==
    LET M == N \div 2
        n == IF 2 * N <= MaxDraws - p THEN N ELSE (MaxDraws - p) \div 2
        S == make_pts(n, p)
        A == first_arm(arm_range(M).lo, arm_range(M).hi, M, <<>>)
        B == second_arm(arm_range(M).lo, arm_range(M).hi, M, <<>>)
    IN  [status |-> "returned", g |-> Graph(N, A.X \o B.X, spiral_y2(N)),
         pos |-> S.pos]

\* spiral never calls make_pts or random: the source is left where it was.
spiral(N, p) ==
    LET M == N \div 2
        A == first_arm(arm_range(M).lo, arm_range(M).hi, M, <<>>)
        B == second_arm(arm_range(M).lo, arm_range(M).hi, M, <<>>)
    IN  IF A.status # "ok" THEN [status |-> A.status, g |-> NoGraph, pos |-> p]
        ELSE IF B.status # "ok" THEN [status |-> B.status, g |-> NoGraph, pos |-> p]
        ELSE [status |-> "returned", g |-> Graph(N, A.X \o B.X, spiral_y2(N)),
              pos |-> p]

----------------------------------------------------------------------------
\* A table that lacks the entry for spiral.
datasets_without_spiral ==
    ("Simple" :> "simple") @@ ("Diag" :> "diag") @@ ("Split" :> "split") @@
    ("Xor" :> "xor") @@ ("Circle" :> "circle")

\* The lookup table: datasets = {"Simple": simple, ...}; a generator is
\* named by its function's name.
datasets ==
    ("Simple" :> "simple") @@ ("Diag" :> "diag") @@ ("Split" :> "split") @@
    ("Xor" :> "xor") @@ ("Circle" :> "circle") @@ ("Spiral" :> "spiral")

\* datasets[key]: the generator, or KeyError.
lookup(key) ==
    IF key \in DOMAIN datasets
    THEN [status |-> "returned", fn |-> datasets[key]]
    ELSE [status |-> "KeyError", fn |-> ""]

\* The names a caller looks up: the six keys and some that are not keys.
Keys == {"Simple", "Diag", "Split", "Xor", "Circle", "Spiral",
         "simple", "Moons"}

----------------------------------------------------------------------------
NoCall ==
    [op |-> "none", n |-> 0, key |-> "", status |-> "none", g |-> NoGraph,
     pts |-> <<>>, fn |-> ""]

\* The whole module: every operation, over a coarse random stream.
Init ==
    /\ stream \in [1..MaxDraws -> CoarseDraws]
    /\ pos = 0
    /\ pos0 = 0
    /\ res = NoCall
    /\ remembered = [at |-> 0, call |-> NoCall]

\* The sampler and the generators that use it, over a finer random stream.
InitSampled ==
    /\ stream \in [1..MaxDraws -> Draws]
    /\ pos = 0
    /\ pos0 = 0
    /\ res = NoCall
    /\ remembered = [at |-> 0, call |-> NoCall]

\* The draws a call with N needs are within the modelled prefix.
CanDraw(N) == pos + 2 * N <= MaxDraws

\* A call of generator op with N ended as r says.
Call(op, N, r) ==
    /\ res' = [op |-> op, n |-> N, key |-> "", status |-> r.status, g |-> r.g,
               pts |-> <<>>, fn |-> ""]
    /\ pos' = r.pos
    /\ pos0' = pos
    /\ UNCHANGED stream

MakePts(N) ==
    /\ CanDraw(N)
    /\ LET S == make_pts(N, pos)
       IN  /\ res' = [op |-> "make_pts", n |-> N, key |-> "",
                      status |-> "returned", g |-> NoGraph, pts |-> S.X,
                      fn |-> ""]
           /\ pos' = S.pos
    /\ pos0' = pos
    /\ UNCHANGED <<stream, remembered>>

Simple(N) ==
    /\ CanDraw(N)
    /\ Call("simple", N, simple(N, pos))
    /\ UNCHANGED remembered

Diag(N) ==
    /\ CanDraw(N)
    /\ Call("diag", N, diag(N, pos))
    /\ UNCHANGED remembered

Split(N) ==
    /\ CanDraw(N)
    /\ Call("split", N, split(N, pos))
    /\ UNCHANGED remembered

Xor(N) ==
    /\ CanDraw(N)
    /\ Call("xor", N, xor(N, pos))
    /\ UNCHANGED remembered

Circle(N) ==
    /\ CanDraw(N)
    /\ Call("circle", N, circle(N, pos))
    /\ UNCHANGED remembered

\* The observer keeps this call's outcome, or the one it kept before.
Spiral(N) ==
    /\ Call("spiral", N, spiral(N, pos))
    /\ \E keep \in BOOLEAN :
          remembered' = IF keep THEN [at |-> pos, call |-> res'] ELSE remembered

Lookup(key) ==
    /\ LET r == lookup(key)
       IN  res' = [op |-> "lookup", n |-> 0, key |-> key, status |-> r.status,
                   g |-> NoGraph, pts |-> <<>>, fn |-> r.fn]
    /\ pos0' = pos
    /\ UNCHANGED <<stream, pos, remembered>>

Next ==
    \/ \E N \in Ns : MakePts(N)
    \/ \E N \in Ns : Simple(N)
    \/ \E N \in Ns : Diag(N)
    \/ \E N \in Ns : Split(N)
    \/ \E N \in Ns : Xor(N)
    \/ \E N \in Ns : Circle(N)
    \/ \E N \in Ns : Spiral(N)
    \/ \E key \in Keys : Lookup(key)

NextSampled ==
    \/ \E N \in Ns : MakePts(N)
    \/ \E N \in Ns : Simple(N)
    \/ \E N \in Ns : Diag(N)
    \/ \E N \in Ns : Split(N)
    \/ \E N \in Ns : Xor(N)
    \/ \E N \in Ns : Circle(N)

Spec == Init /\ [][Next]_vars

SpecSampled == InitSampled /\ [][NextSampled]_vars

----------------------------------------------------------------------------
\* Vocabulary of the properties below.

Generators == {"simple", "diag", "split", "xor", "circle", "spiral"}

SampledGenerators == {"simple", "diag", "split", "xor", "circle"}

TheKeys == {"Simple", "Diag", "Split", "Xor", "Circle", "Spiral"}

\* The generator that has the name of key k.
SameName(k) ==
    CASE k = "Simple" -> "simple" [] k = "Diag" -> "diag" [] k = "Split" -> "split"
      [] k = "Xor" -> "xor" [] k = "Circle" -> "circle" [] k = "Spiral" -> "spiral"

\* The value k/Scale is below, resp. above, the fraction num/den.
Below(k, num, den) == k * den < num * Scale

Above(k, num, den) == k * den > num * Scale

\* The labelling predicate of generator op at the point (x1, x2), in exact
\* rational arithmetic.
Predicate(op, x1, x2) ==
    CASE op = "simple" -> Below(x1, 1, 2)
      [] op = "diag"   -> Below(x1 + x2, 1, 2)
      [] op = "split"  -> Below(x1, 1, 5) \/ Above(x1, 4, 5)
      [] op = "xor"    -> \/ (Below(x1, 1, 2) /\ Above(x2, 1, 2))
                          \/ (Above(x1, 1, 2) /\ Below(x2, 1, 2))
      [] op = "circle" ->
            \* (x1 - 1/2)^2 + (x2 - 1/2)^2 > 1/10, times 4 * Scale^2 * 10
            10 * ((2 * x1 - Scale) * (2 * x1 - Scale)
                  + (2 * x2 - Scale) * (2 * x2 - Scale)) > 4 * Scale * Scale

\* The n points made of the 2*n values of the stream that follow position p.
Segment(p, n) == [i \in 1..n |-> <<stream[p + 2 * i - 1], stream[p + 2 * i]>>]

\* The coordinate h(c * (i / M)) + 0.5 as a term.
Coord(h, c, i, M) ==
    [of |-> [f |-> h, t |-> [c |-> c, q |-> [zero |-> FALSE, num |-> i, den |-> M]]],
     plus |-> "0.5"]

----------------------------------------------------------------------------
\* C1: for each of the six generators and every N >= 0 for which the call
\* returns, the Dataset has as many points as labels, and that number is its
\* count field N.
C1_CountMatchesLengths ==
    (res.op \in Generators /\ res.status = "returned" /\ res.n >= 0) =>
        /\ res.g.N = res.n
        /\ Len(res.g.X) = res.g.N
        /\ Len(res.g.y) = res.g.N

\* C2 as stated: spiral with N = 0 or N = 1 ends in a division by zero and
\* returns no Dataset.
C2_SpiralSmallRaises ==
    (res.op = "spiral" /\ res.n \in {0, 1}) =>
        res.status = "ZeroDivisionError"

\* C2 as amended: spiral with N = 0 or N = 1 evaluates no division (the index
\* range 5..5+N//2 is empty) and returns a Dataset with count field N and
\* empty point and label sequences.
C2_SpiralSmallReturnsEmpty ==
    (res.op = "spiral" /\ res.n \in {0, 1}) =>
        /\ res.status = "returned"
        /\ res.g.N = res.n
        /\ res.g.X = <<>>
        /\ res.g.y = <<>>

C2_Witness ==
    /\ res.op = "spiral"
    /\ res.n = 1
    /\ res.status = "returned"
    /\ res.g = Graph(1, <<>>, <<>>)

\* C3: a call of any generator with N < 0 ends in a visible failure and
\* returns no Dataset.
C3_NegativeNFails ==
    (res.op \in Generators /\ res.n < 0) => res.status # "returned"

\* C4: for N >= 0 the label at every index of a dataset returned by simple,
\* diag, split, xor or circle is 1 if the generator's predicate holds of the
\* point at that index and 0 otherwise.
C4_LabelIsPredicateOfPoint ==
    (res.op \in SampledGenerators /\ res.status = "returned" /\ res.n >= 0) =>
        /\ Len(res.g.X) = res.n
        /\ Len(res.g.y) = res.n
        /\ \A i \in 1..res.n :
              /\ res.g.y[i] \in {0, 1}
              /\ res.g.y[i] = 1 <=> Predicate(res.op, res.g.X[i][1], res.g.X[i][2])

\* simple labelled two points: the first left of 0.5 with 1, the second, with
\* x1 exactly 0.5, with 0.
C4_Witness ==
    /\ res.op = "simple"
    /\ res.status = "returned"
    /\ res.n = 2
    /\ 2 * res.g.X[1][1] < Scale
    /\ res.g.y[1] = 1
    /\ 2 * res.g.X[2][1] = Scale
    /\ res.g.y[2] = 0

\* C5: for N >= 2 spiral returns, with M = N // 2, exactly 2*M points and 2*M
\* labels, M zeros followed by M ones; for odd N that is N - 1 entries.
C5_SpiralLengthsAndLabels ==
    (res.op = "spiral" /\ res.n >= 2) =>
        LET M == res.n \div 2
        IN  /\ res.status = "returned"
            /\ Len(res.g.X) = 2 * M
            /\ Len(res.g.y) = 2 * M
            /\ \A k \in 1..M : res.g.y[k] = 0 /\ res.g.y[M + k] = 1
            /\ (res.n % 2 = 1 => Len(res.g.X) = res.n - 1 /\ Len(res.g.y) = res.n - 1)

C5_Witness ==
    /\ res.op = "spiral"
    /\ res.n = 5
    /\ res.status = "returned"
    /\ Len(res.g.X) = 4
    /\ res.g.y = <<0, 0, 1, 1>>

\* C6: for N >= 0 make_pts returns exactly N points, each coordinate a value
\* drawn from the random source during the call and lying in [0, 1);
\* make_pts(0) returns the empty sequence.
C6_MakePtsCountAndRange ==
    (res.op = "make_pts" /\ res.n >= 0) =>
        /\ res.status = "returned"
        /\ Len(res.pts) = res.n
        /\ \A i \in 1..Len(res.pts) : \A c \in 1..2 :
              /\ 0 <= res.pts[i][c] /\ res.pts[i][c] < Scale
              /\ \E j \in (pos0 + 1)..pos : res.pts[i][c] = stream[j]
        /\ (res.n = 0 => res.pts = <<>>)

C6_Witness ==
    /\ res.op = "make_pts"
    /\ res.n = 2
    /\ Len(res.pts) = 2
    /\ res.pts[1] # res.pts[2]

\* C7: the lookup table has exactly the six keys, each mapped to the
\* generator of the same name; looking up any other name fails and yields no
\* generator.
C7_LookupTable ==
    /\ DOMAIN datasets = TheKeys
    /\ \A k \in TheKeys : datasets[k] = SameName(k)
    /\ res.op = "lookup" =>
          IF res.key \in TheKeys
          THEN res.status = "returned" /\ res.fn = SameName(res.key)
          ELSE res.status = "KeyError" /\ res.fn = ""

C7_Witness ==
    /\ res.op = "lookup"
    /\ res.key = "Moons"
    /\ res.status = "KeyError"

\* C8: for N >= 2, M = N // 2 and k in 0..M-1, index k holds the first-arm
\* point of i = 5 + k, (x(10*(i/M)) + 0.5, y(10*(i/M)) + 0.5), and index M + k
\* the second-arm point of the same i, (y(-10*(i/M)) + 0.5, x(-10*(i/M)) + 0.5).
C8_SpiralPointsByIndex ==
    (res.op = "spiral" /\ res.n >= 2) =>
        LET M == res.n \div 2
        IN  /\ res.status = "returned"
            /\ Len(res.g.X) = 2 * M
            /\ \A k \in 0..(M - 1) :
                  /\ res.g.X[k + 1] =
                        <<Coord("x", 10, 5 + k, M), Coord("y", 10, 5 + k, M)>>
                  /\ res.g.X[M + k + 1] =
                        <<Coord("y", -10, 5 + k, M), Coord("x", -10, 5 + k, M)>>

C8_Witness ==
    /\ res.op = "spiral"
    /\ res.n = 4
    /\ res.status = "returned"
    /\ res.g.X[2] = <<Coord("x", 10, 6, 2), Coord("y", 10, 6, 2)>>
    /\ res.g.X[4] = <<Coord("y", -10, 6, 2), Coord("x", -10, 6, 2)>>

\* C9: a spiral call leaves the random source where it was, and it ends as
\* any earlier spiral call with the same N ended, with an equal dataset,
\* whatever was called in between.
C9_SpiralIgnoresRandomSource ==
    res.op = "spiral" =>
        /\ pos = pos0
        /\ (remembered.call.op = "spiral" /\ remembered.call.n = res.n) =>
              /\ res.status = remembered.call.status
              /\ res.g = remembered.call.g

\* Two spiral calls with the same N >= 2, with draws from the source between
\* them.
C9_Witness ==
    /\ res.op = "spiral"
    /\ res.n >= 2
    /\ remembered.call.op = "spiral"
    /\ remembered.call.n = res.n
    /\ remembered.at < pos0
    /\ pos = pos0

\* C10: a call of simple, diag, split, xor or circle with N >= 0 takes exactly
\* the next 2*N values of the random stream and no others, and point i is
\* (value 2i, value 2i+1) of them, x1 before x2; the dataset returned is
\* thereby determined by N and that segment of the stream.
C10_ConsecutiveDraws ==
    (res.op \in SampledGenerators /\ res.status = "returned" /\ res.n >= 0) =>
        /\ pos = pos0 + 2 * res.n
        /\ Len(res.g.X) = res.n
        /\ \A i \in 0..(res.n - 1) :
              res.g.X[i + 1] = <<stream[pos0 + 2 * i + 1], stream[pos0 + 2 * i + 2]>>
        /\ res.g = Graph(res.n, Segment(pos0, res.n),
                         [i \in 1..res.n |->
                            IF Predicate(res.op, stream[pos0 + 2 * i - 1],
                                         stream[pos0 + 2 * i])
                            THEN 1 ELSE 0])

\* A second call took the segment after the first call's, with x1 # x2.
C10_Witness ==
    /\ res.op \in SampledGenerators
    /\ res.n = 1
    /\ pos0 = 2
    /\ pos = 4
    /\ stream[3] # stream[4]
    /\ res.g.X[1] = <<stream[3], stream[4]>>

====
